--------------------------- MODULE Spec2Model ---------------------------
(***************************************************************************)
(* A model of scripts/parse_docs.py, the converter that turns a tree of    *)
(* Markdown cmdlet documents into manifest.json, descriptions.json and     *)
(* modules/<Module>.json.                                                  *)
(*                                                                         *)
(* Text is a sequence of one-character strings, so that prefixes, regular  *)
(* expressions, case folding and sorting are computed character by         *)
(* character as Python computes them.  A tuple such as <<"A","z",".">> is  *)
(* the Python string "Az.".                                                *)
(***************************************************************************)
EXTENDS Integers, Sequences, FiniteSets, TLC

VARIABLES
    docs_root,         \* sys.argv[1] of the last run of main: the input tree
    out,               \* the output directory public/data on disk
    status,            \* how the last run of main ended: "none", "ok", "notfound"
    runs,              \* number of runs of main so far
    azps_dir,          \* main's local `azps_dir` in the last run: the path chosen
    version,           \* main's local `version` in the last run
    manifest_entries,  \* main's local `manifest_entries` in the last run
    descriptions,      \* main's local `descriptions` in the last run
    modules_data,      \* main's local `modules_data` in the last run
    input,             \* argument of the function under check (function specifications)
    result,            \* its return value
    pc                 \* "call" before the function ran, "return" after

vars == <<docs_root, out, status, runs, azps_dir, version, manifest_entries, descriptions,
          modules_data, input, result, pc>>

mainVars == <<docs_root, out, status, runs, azps_dir, version, manifest_entries, descriptions,
              modules_data>>

fnVars == <<input, result, pc>>

(***************************************************************************)
(* Characters and Python's str methods                                     *)
(***************************************************************************)
\* The backquote character (a string literal cannot hold it)
BT == "backquote"

UpperCase == <<"A","B","C","D","E","F","G","H","I","J","K","L","M","N","O","P","Q","R","S","T","U","V","W","X","Y","Z">> (* ABCDEFGHIJKLMNOPQRSTUVWXYZ *)

LowerCase == <<"a","b","c","d","e","f","g","h","i","j","k","l","m","n","o","p","q","r","s","t","u","v","w","x","y","z">> (* abcdefghijklmnopqrstuvwxyz *)

Digits == <<"0","1","2","3","4","5","6","7","8","9">> (* 0123456789 *)

\* The characters the model uses, in code point order (str comparison order).
Ascii == <<"\n"," ","#","&","(",")","*","-",".","0","1","2","3","4","5","6","7","8","9","A","B","C","D","E","F","G","H","I","J","K","L","M","N","O","P","Q","R","S","T","U","V","W","X","Y","Z","[","]","_",BT,"a","b","c","d","e","f","g","h","i","j","k","l","m","n","o","p","q","r","s","t","u","v","w","x","y","z">>

Range(s) == {s[i] : i \in 1..Len(s)}

IndexIn(tab, c) == CHOOSE i \in 1..Len(tab) : tab[i] = c

Ord(c) == IndexIn(Ascii, c)

IsUpper(c) == c \in Range(UpperCase)

IsLower(c) == c \in Range(LowerCase)

IsDigit(c) == c \in Range(Digits)

\* \s of the re module and the white space str.strip() removes
IsSpace(c) == c \in {" ", "\n"}

DigitValue(c) == IndexIn(Digits, c) - 1

ToLower(c) == IF IsUpper(c) THEN LowerCase[IndexIn(UpperCase, c)] ELSE c

\* str.lower()
lower(s) == [i \in 1..Len(s) |-> ToLower(s[i])]

\* str.startswith(p)
startswith(s, p) == Len(s) >= Len(p) /\ SubSeq(s, 1, Len(p)) = p

\* str.removeprefix(p)
removeprefix(s, p) == IF startswith(s, p) THEN SubSeq(s, Len(p) + 1, Len(s)) ELSE s

\* k in s
contains(s, k) == \E i \in 0..(Len(s) - Len(k)) : SubSeq(s, i + 1, i + Len(k)) = k

\* str.strip()
RECURSIVE lstrip(_)
lstrip(s) == IF s # <<>> /\ IsSpace(Head(s)) THEN lstrip(Tail(s)) ELSE s

RECURSIVE rstrip(_)
rstrip(s) == IF s # <<>> /\ IsSpace(s[Len(s)]) THEN rstrip(SubSeq(s, 1, Len(s) - 1)) ELSE s

strip(s) == rstrip(lstrip(s))

\* str.splitlines(): split at line breaks, no empty last line after a final break
RECURSIVE SplitFrom(_, _)
SplitFrom(s, cur) ==
    IF s = <<>> THEN (IF cur = <<>> THEN <<>> ELSE <<cur>>)
    ELSE IF Head(s) = "\n" THEN <<cur>> \o SplitFrom(Tail(s), <<>>)
    ELSE SplitFrom(Tail(s), Append(cur, Head(s)))

splitlines(s) == SplitFrom(s, <<>>)

\* '\n'.join(lines)
RECURSIVE join(_)
join(lines) ==
    IF lines = <<>> THEN <<>>
    ELSE IF Len(lines) = 1 THEN lines[1]
    ELSE lines[1] \o <<"\n">> \o join(Tail(lines))

\* s < t for str (code point order, a proper prefix first)
RECURSIVE StrLess(_, _)
StrLess(s, t) ==
    IF t = <<>> THEN FALSE
    ELSE IF s = <<>> THEN TRUE
    ELSE IF Head(s) = Head(t) THEN StrLess(Tail(s), Tail(t))
    ELSE Ord(Head(s)) < Ord(Head(t))

(***************************************************************************)
(* Category mapping                                                        *)
(***************************************************************************)
CATEGORY_MAP == <<
    <<<<"A","c","c","o","u","n","t","s">> (* Accounts *), "Authentication">>,
    <<<<"C","o","m","p","u","t","e">> (* Compute *), "Compute">>,
    <<<<"N","e","t","w","o","r","k">> (* Network *), "Networking">>,
    <<<<"S","t","o","r","a","g","e">> (* Storage *), "Storage">>,
    <<<<"S","q","l">> (* Sql *), "Database">>,
    <<<<"C","o","s","m","o","s","D","b">> (* CosmosDb *), "Database">>,
    <<<<"R","e","d","i","s">> (* Redis *), "Database">>,
    <<<<"M","o","n","i","t","o","r">> (* Monitor *), "Monitoring">>,
    <<<<"A","d","v","i","s","o","r">> (* Advisor *), "Governance">>,
    <<<<"P","o","l","i","c","y">> (* Policy *), "Governance">>,
    <<<<"S","e","c","u","r","i","t","y">> (* Security *), "Security">>,
    <<<<"K","e","y","V","a","u","l","t">> (* KeyVault *), "Security">>,
    <<<<"I","d","e","n","t","i","t","y">> (* Identity *), "Identity">>,
    <<<<"A","k","s">> (* Aks *), "Containers">>,
    <<<<"C","o","n","t","a","i","n","e","r","I","n","s","t","a","n","c","e">> (* ContainerInstance *), "Containers">>,
    <<<<"C","o","n","t","a","i","n","e","r","R","e","g","i","s","t","r","y">> (* ContainerRegistry *), "Containers">>,
    <<<<"A","p","p">> (* App *), "App Services">>,
    <<<<"W","e","b","s","i","t","e","s">> (* Websites *), "App Services">>,
    <<<<"F","u","n","c","t","i","o","n","s">> (* Functions *), "App Services">>,
    <<<<"L","o","g","i","c">> (* Logic *), "Integration">>,
    <<<<"S","e","r","v","i","c","e","B","u","s">> (* ServiceBus *), "Messaging">>,
    <<<<"E","v","e","n","t","H","u","b">> (* EventHub *), "Messaging">>,
    <<<<"E","v","e","n","t","G","r","i","d">> (* EventGrid *), "Messaging">>,
    <<<<"N","o","t","i","f","i","c","a","t","i","o","n","H","u","b","s">> (* NotificationHubs *), "Messaging">>,
    <<<<"A","p","i","M","a","n","a","g","e","m","e","n","t">> (* ApiManagement *), "API Management">>,
    <<<<"R","e","s","o","u","r","c","e","s">> (* Resources *), "Resources">>,
    <<<<"R","e","s","o","u","r","c","e","M","o","v","e","r">> (* ResourceMover *), "Resources">>,
    <<<<"C","d","n">> (* Cdn *), "Networking">>,
    <<<<"D","n","s">> (* Dns *), "Networking">>,
    <<<<"F","r","o","n","t","D","o","o","r">> (* FrontDoor *), "Networking">>,
    <<<<"T","r","a","f","f","i","c","M","a","n","a","g","e","r">> (* TrafficManager *), "Networking">>,
    <<<<"V","i","r","t","u","a","l","W","a","n">> (* VirtualWan *), "Networking">>,
    <<<<"P","o","w","e","r","B","I","E","m","b","e","d","d","e","d">> (* PowerBIEmbedded *), "Analytics">>,
    <<<<"S","t","r","e","a","m","A","n","a","l","y","t","i","c","s">> (* StreamAnalytics *), "Analytics">>,
    <<<<"M","a","c","h","i","n","e","L","e","a","r","n","i","n","g">> (* MachineLearning *), "AI & ML">>,
    <<<<"C","o","g","n","i","t","i","v","e","S","e","r","v","i","c","e","s">> (* CognitiveServices *), "AI & ML">>,
    <<<<"D","a","t","a","F","a","c","t","o","r","y">> (* DataFactory *), "Data">>,
    <<<<"D","a","t","a","L","a","k","e","S","t","o","r","e">> (* DataLakeStore *), "Data">>,
    <<<<"S","y","n","a","p","s","e">> (* Synapse *), "Data">>,
    <<<<"D","a","t","a","b","r","i","c","k","s">> (* Databricks *), "Data">>,
    <<<<"B","a","t","c","h">> (* Batch *), "Compute">>,
    <<<<"H","D","I","n","s","i","g","h","t">> (* HDInsight *), "Compute">>,
    <<<<"S","e","r","v","i","c","e","F","a","b","r","i","c">> (* ServiceFabric *), "Compute">>,
    <<<<"A","u","t","o","m","a","t","i","o","n">> (* Automation *), "Management">>,
    <<<<"B","a","c","k","u","p">> (* Backup *), "Management">>,
    <<<<"R","e","c","o","v","e","r","y","S","e","r","v","i","c","e","s">> (* RecoveryServices *), "Management">>,
    <<<<"O","p","e","r","a","t","i","o","n","a","l","I","n","s","i","g","h","t","s">> (* OperationalInsights *), "Monitoring">> >>

AzDot == <<"A","z",".">> (* Az. *)

\* The first pass of get_category: rules i.. in list order, exact match
RECURSIVE ExactPass(_, _)
ExactPass(suffix, i) ==
    IF i > Len(CATEGORY_MAP) THEN "<none>"
    ELSE IF lower(suffix) = lower(CATEGORY_MAP[i][1]) THEN CATEGORY_MAP[i][2]
    ELSE ExactPass(suffix, i + 1)

\* The second pass of get_category: rules i.. in list order, key in suffix
RECURSIVE PartialPass(_, _)
PartialPass(suffix, i) ==
    IF i > Len(CATEGORY_MAP) THEN "Other"
    ELSE IF contains(lower(suffix), lower(CATEGORY_MAP[i][1])) THEN CATEGORY_MAP[i][2]
    ELSE PartialPass(suffix, i + 1)

\* A get_category that compares without folding case
get_category_case_sensitive(module_name) ==
    LET suffix == removeprefix(module_name, AzDot)
        Exact == {i \in 1..Len(CATEGORY_MAP) : suffix = CATEGORY_MAP[i][1]}
        Part == {i \in 1..Len(CATEGORY_MAP) : contains(suffix, CATEGORY_MAP[i][1])}
        First(S) == CHOOSE i \in S : \A j \in S : i <= j
    IN  IF Exact # {} THEN CATEGORY_MAP[First(Exact)][2]
        ELSE IF Part # {} THEN CATEGORY_MAP[First(Part)][2]
        ELSE "Other"

get_category(module_name) ==
    LET suffix == removeprefix(module_name, AzDot)
        exact == ExactPass(suffix, 1)
    IN  IF exact # "<none>" THEN exact ELSE PartialPass(suffix, 1)

(***************************************************************************)
(* Version resolver                                                        *)
(*                                                                         *)
(* A directory tree is a set of entries [path, is_dir]; path is the        *)
(* sequence of names from the root, so the root's children have paths of   *)
(* length 1 and their children paths of length 2.                          *)
(***************************************************************************)
AzpsDash == <<"a","z","p","s","-">> (* azps- *)

Dir(p) == [path |-> p, is_dir |-> TRUE]

File(p) == [path |-> p, is_dir |-> FALSE]

name(e) == e.path[Len(e.path)]

\* Path.iterdir(): the entries directly inside the directory at path `dir`
iterdir(tree, dir) ==
    {e \in tree : Len(e.path) = Len(dir) + 1 /\ SubSeq(e.path, 1, Len(dir)) = dir}

\* [d for d in X.iterdir() if d.is_dir() and d.name.startswith('azps-')]
azps_dirs(tree, dir) ==
    {d \in iterdir(tree, dir) : d.is_dir /\ startswith(name(d), AzpsDash)}

\* The candidates of find_latest_azps_dir: those of the root, else one level deeper
candidates(tree) ==
    IF azps_dirs(tree, <<>>) # {} THEN azps_dirs(tree, <<>>)
    ELSE UNION {azps_dirs(tree, sub.path) : sub \in {s \in iterdir(tree, <<>>) : s.is_dir}}

\* The orders in which the candidate list can be built: iterdir() yields a
\* directory's entries in the operating system's order, and the candidates of one
\* sub-directory are appended together.
Enumerations(S) ==
    {o \in [1..Cardinality(S) -> S] :
        /\ \A i, j \in 1..Cardinality(S) : i # j => o[i] # o[j]
        /\ \A i, j, k \in 1..Cardinality(S) :
             (i < j /\ j < k /\ SubSeq(o[i].path, 1, Len(o[i].path) - 1)
                                  = SubSeq(o[k].path, 1, Len(o[k].path) - 1))
                => SubSeq(o[j].path, 1, Len(o[j].path) - 1)
                     = SubSeq(o[i].path, 1, Len(o[i].path) - 1)}

\* re.findall(r'\d+', s) as integers: the maximal runs of digits, each as a number.
\* cur is the run being read (-1: none), acc the numbers read so far.
RECURSIVE DigitRuns(_, _, _)
DigitRuns(s, cur, acc) ==
    IF s = <<>> THEN (IF cur >= 0 THEN Append(acc, cur) ELSE acc)
    ELSE IF IsDigit(Head(s))
         THEN DigitRuns(Tail(s), (IF cur >= 0 THEN cur * 10 ELSE 0) + DigitValue(Head(s)), acc)
         ELSE DigitRuns(Tail(s), -1, IF cur >= 0 THEN Append(acc, cur) ELSE acc)

\* A ver_key that takes every digit as a number of its own, as comparing the
\* version text would
RECURSIVE ver_key_by_digit(_)
ver_key_by_digit(s) ==
    IF s = <<>> THEN <<>>
    ELSE (IF IsDigit(Head(s)) THEN <<DigitValue(Head(s))>> ELSE <<>>)
           \o ver_key_by_digit(Tail(s))

\* ver_key(d), of the directory's name
ver_key(s) == DigitRuns(s, -1, <<>>)

\* a < b for tuples of int
RECURSIVE TupleLess(_, _)
TupleLess(a, b) ==
    IF b = <<>> THEN FALSE
    ELSE IF a = <<>> THEN TRUE
    ELSE IF Head(a) = Head(b) THEN TupleLess(Tail(a), Tail(b))
    ELSE Head(a) < Head(b)

\* max(list, key=ver_key): the first element no later one beats
RECURSIVE MaxFrom(_, _, _)
MaxFrom(list, i, best) ==
    IF i > Len(list) THEN best
    ELSE IF TupleLess(ver_key(name(best)), ver_key(name(list[i])))
         THEN MaxFrom(list, i + 1, list[i])
         ELSE MaxFrom(list, i + 1, best)

\* find_latest_azps_dir on the candidate list built in the order `list`
find_latest_azps_dir(list) ==
    IF list = <<>> THEN [raised |-> "FileNotFoundError"]
    ELSE [value |-> MaxFrom(list, 2, list[1])]

(***************************************************************************)
(* Code block extractor                                                    *)
(***************************************************************************)
Fence == <<BT, BT, BT>>

FenceAt(text, i) == i + 2 <= Len(text) /\ SubSeq(text, i, i + 2) = Fence

\* (?:powershell|ps1|posh)? : the alternatives in the order the regex tries them
FenceTags == <<<<"p","o","w","e","r","s","h","e","l","l">> (* powershell *), <<"p","s","1">> (* ps1 *), <<"p","o","s","h">> (* posh *), <<>>>>

\* The number of white space characters from position p on
RECURSIVE SpaceRun(_, _)
SpaceRun(text, p) ==
    IF p <= Len(text) /\ IsSpace(text[p]) THEN 1 + SpaceRun(text, p + 1) ELSE 0

\* \s*\n from position p: greedy, so it ends at the last line break of the white
\* space run; the position after it, or 0 when the run holds no line break
ContentStart(text, p) ==
    LET breaks == {j \in p..(p + SpaceRun(text, p) - 1) : text[j] = "\n"}
    IN  IF breaks = {} THEN 0 ELSE (CHOOSE j \in breaks : \A k \in breaks : k <= j) + 1

\* (.*?)``` from position c: the first closing fence, or 0
NextFence(text, c) ==
    LET fences == {e \in c..Len(text) : FenceAt(text, e)}
    IN  IF fences = {} THEN 0 ELSE CHOOSE e \in fences : \A f \in fences : e <= f

NoMatch == [ok |-> FALSE, content |-> <<>>, end |-> 0]

\* The match whose content starts at c (0: the opening fence did not match)
MatchTo(text, c, e) ==
    IF c = 0 \/ e = 0 THEN NoMatch
    ELSE [ok |-> TRUE, content |-> SubSeq(text, c, e - 1), end |-> e + 3]

MatchContent(text, c) == MatchTo(text, c, IF c = 0 THEN 0 ELSE NextFence(text, c))

\* The regex at position i with the language tag `tag`
MatchWithTag(text, i, tag) ==
    IF /\ FenceAt(text, i)
       /\ i + 2 + Len(tag) <= Len(text)
       /\ lower(SubSeq(text, i + 3, i + 2 + Len(tag))) = tag
    THEN MatchContent(text, ContentStart(text, i + 3 + Len(tag)))
    ELSE NoMatch

\* The alternatives of the tag in turn: the first that lets the regex match
RECURSIVE MatchFromTag(_, _, _)
FirstMatch(m, text, i, t) == IF m.ok THEN m ELSE MatchFromTag(text, i, t + 1)

MatchFromTag(text, i, t) ==
    IF t > Len(FenceTags) THEN NoMatch
    ELSE FirstMatch(MatchWithTag(text, i, FenceTags[t]), text, i, t)

\* re.findall(r'```(?:powershell|ps1|posh)?\s*\n(.*?)```', text, DOTALL | IGNORECASE)
\* from position i on: the contents of the matches, left to right, not overlapping
RECURSIVE findall_blocks(_, _)
FindNext(m, text, i) ==
    IF m.ok THEN <<m.content>> \o findall_blocks(text, m.end)
    ELSE findall_blocks(text, i + 1)

findall_blocks(text, i) ==
    IF i > Len(text) THEN <<>> ELSE FindNext(MatchFromTag(text, i, 1), text, i)

IsCommentLine(l) == startswith(strip(l), <<"#">>)

NotCommentLine(l) == ~IsCommentLine(l)

\* The body of extract_code_blocks's loop for one block b
clean_block(b) == strip(join(SelectSeq(splitlines(strip(b)), NotCommentLine)))

NonEmpty(s) == s # <<>>

Take(seq, n) == SubSeq(seq, 1, IF n < Len(seq) THEN n ELSE Len(seq))

\* The loop of extract_code_blocks over the blocks it was given
clean_blocks(blocks) ==
    SelectSeq([i \in 1..Len(blocks) |-> clean_block(blocks[i])], NonEmpty)

\* An extract_code_blocks that cuts to max_blocks after cleaning, not before
extract_code_blocks_cut_late(section_text, max_blocks) ==
    Take(clean_blocks(findall_blocks(section_text, 1)), max_blocks)

extract_code_blocks(section_text, max_blocks) ==
    clean_blocks(Take(findall_blocks(section_text, 1), max_blocks))

(***************************************************************************)
(* Document classifier and field extractor                                 *)
(*                                                                         *)
(* A document is a record [path, front, synopsis, syntax, examples]: its   *)
(* path from the root, the mapping parse_front_matter returns for its      *)
(* text, and the texts extract_section returns for its three sections.     *)
(***************************************************************************)
None == [none |-> TRUE]

DotMd == <<".","m","d">> (* .md *)

DashAz == <<"-","A","z">> (* -Az *)

\* dict.get(key, default)
FrontGet(front, key, default) == IF key \in DOMAIN front THEN front[key] ELSE default

\* Path(filepath).stem of a *.md file
stem(filename) == SubSeq(filename, 1, Len(filename) - Len(DotMd))

\* Path(filepath).parent.name
parent_name(path) == path[Len(path) - 1]

\* The number of lower case letters from position p on
RECURSIVE LowerRun(_, _)
LowerRun(s, p) == IF p <= Len(s) /\ IsLower(s[p]) THEN 1 + LowerRun(s, p + 1) ELSE 0

\* ^([A-Z][a-z]+)-Az matched at the start of s: the length of group 1, or 0
VerbLength(s) ==
    IF s # <<>> /\ IsUpper(s[1]) /\ LowerRun(s, 2) >= 1
          /\ startswith(SubSeq(s, LowerRun(s, 2) + 2, Len(s)), DashAz)
    THEN LowerRun(s, 2) + 1
    ELSE 0

\* re.match(r'^Az\.[A-Za-z]+$', fname)
is_module_index(fname) ==
    /\ startswith(fname, AzDot)
    /\ Len(fname) > Len(AzDot)
    /\ \A i \in (Len(AzDot) + 1)..Len(fname) : IsUpper(fname[i]) \/ IsLower(fname[i])

\* A name test that lets the verb start in lower case
is_cmdlet_name_any_case(s) ==
    \E k \in 1..Len(s) :
        /\ \A i \in 1..k : IsUpper(s[i]) \/ IsLower(s[i])
        /\ startswith(SubSeq(s, k + 1, Len(s)), DashAz)

\* re.match(r'^[A-Z][a-z]+-Az', name)
is_cmdlet_name(s) == VerbLength(s) > 0

\* front.get('title') or fname
resolve_name(front, fname) ==
    IF FrontGet(front, "title", <<>>) # <<>> THEN front["title"] ELSE fname

\* A module resolution that falls back to the parent directory whenever the
\* front-matter field does not start with Az.
resolve_module_or_parent(front, parent) ==
    IF startswith(FrontGet(front, "Module Name", <<>>), AzDot) THEN front["Module Name"]
    ELSE IF startswith(parent, AzDot) THEN parent
    ELSE FrontGet(front, "Module Name", <<>>)

\* module = front.get('Module Name', ''), replaced by the parent when empty
resolve_module(front, parent) ==
    LET module == FrontGet(front, "Module Name", <<>>)
    IN  IF module = <<>> /\ startswith(parent, AzDot) THEN parent ELSE module

\* re.sub(r'\[([^\]]+)\]\([^)]+\)', r'\1', s) from position i on
RECURSIVE sub_links(_, _)
sub_links(s, i) ==
    IF i > Len(s) THEN <<>>
    ELSE LET closers == {j \in (i + 1)..Len(s) : s[j] = "]"}
             j == IF closers = {} THEN 0 ELSE CHOOSE x \in closers : \A y \in closers : x <= y
             parens == {k \in (j + 2)..Len(s) : s[k] = ")"}
             k == IF parens = {} THEN 0 ELSE CHOOSE x \in parens : \A y \in parens : x <= y
         IN  IF /\ s[i] = "["
                /\ j >= i + 2
                /\ j + 1 <= Len(s) /\ s[j + 1] = "("
                /\ k >= j + 3
             THEN SubSeq(s, i + 1, j - 1) \o sub_links(s, k + 1)
             ELSE <<s[i]>> \o sub_links(s, i + 1)

IsNotMarker(c) == c \notin {"*", "_", BT}

\* The description of parse_cmdlet_doc: the first line of the synopsis, cleaned
description_of(synopsis_sec) ==
    LET first == IF synopsis_sec # <<>> THEN strip(splitlines(synopsis_sec)[1]) ELSE <<>>
    IN  strip(SelectSeq(sub_links(first, 1), IsNotMarker))

\* syntax_blocks[0] if syntax_blocks else ''
first_or_empty(blocks) == IF blocks # <<>> THEN blocks[1] ELSE <<>>

\* parse_cmdlet_doc from the name and the module it resolved
classify(doc, fname, cname, module) ==
    IF is_module_index(fname) THEN None
    ELSE IF ~is_cmdlet_name(cname) THEN None
    ELSE IF module = <<>> \/ ~startswith(module, AzDot) THEN None
    ELSE [name |-> cname,
          module |-> module,
          description |-> description_of(doc.synopsis),
          syntax |-> first_or_empty(extract_code_blocks(doc.syntax, 1)),
          examples |-> extract_code_blocks(doc.examples, 3)]

parse_cmdlet_doc(doc) ==
    classify(doc, stem(name(doc)), resolve_name(doc.front, stem(name(doc))),
             resolve_module(doc.front, parent_name(doc.path)))

(***************************************************************************)
(* Aggregator and writer: main                                             *)
(*                                                                         *)
(* The input tree is the set of its documents; its directories are the     *)
(* prefixes of their paths.  A Python dict is a sequence of <<key, value>> *)
(* pairs in insertion order, the order json.dump writes.  A file on disk   *)
(* is <<content>>, a missing file <<>>; the content of a JSON file is the  *)
(* value json.dump was given.                                              *)
(***************************************************************************)
IsUnder(path, dir) == Len(path) > Len(dir) /\ SubSeq(path, 1, Len(dir)) = dir

\* The directory entries and file entries of the tree holding the documents docs
entries(docs) ==
    UNION {{Dir(SubSeq(d.path, 1, k)) : k \in 1..(Len(d.path) - 1)} : d \in docs}
        \cup {File(d.path) : d \in docs}

DictKeys(dict) == {dict[i][1] : i \in 1..Len(dict)}

\* dict.get(key, default)
DictGet(dict, key, default) ==
    IF key \in DictKeys(dict)
    THEN dict[CHOOSE i \in 1..Len(dict) : dict[i][1] = key][2]
    ELSE default

\* dict[key] = value: an existing key keeps its place
DictSet(dict, key, value) ==
    IF key \in DictKeys(dict)
    THEN [i \in 1..Len(dict) |-> IF dict[i][1] = key THEN <<key, value>> ELSE dict[i]]
    ELSE Append(dict, <<key, value>>)

\* sorted(paths) of entries of one directory: by name
RECURSIVE sorted(_)
sorted(S) ==
    IF S = {} THEN <<>>
    ELSE LET least == CHOOSE e \in S : \A f \in S \ {e} : StrLess(name(e), name(f))
         IN  <<least>> \o sorted(S \ {least})

\* The end of \d+ from position p: the position after the digit run, 0 without digits
RECURSIVE DigitsEnd(_, _)
DigitsEnd(s, p) ==
    IF p <= Len(s) /\ IsDigit(s[p])
    THEN (IF DigitsEnd(s, p + 1) = 0 THEN p + 1 ELSE DigitsEnd(s, p + 1))
    ELSE 0

\* azps-(\d+\.\d+\.\d+) matched at position i: group 1, or <<>>
VersionAt(s, i) ==
    LET a == i + Len(AzpsDash)
        b == DigitsEnd(s, a)
        c == IF b > 0 /\ b <= Len(s) /\ s[b] = "." THEN DigitsEnd(s, b + 1) ELSE 0
        e == IF c > 0 /\ c <= Len(s) /\ s[c] = "." THEN DigitsEnd(s, c + 1) ELSE 0
    IN  IF startswith(SubSeq(s, i, Len(s)), AzpsDash) /\ e > 0 THEN SubSeq(s, a, e - 1)
        ELSE <<>>

DefaultVersion == <<"0",".","0",".","0">> (* 0.0.0 *)

\* re.search(r'azps-(\d+\.\d+\.\d+)', azps_dir.name), else '0.0.0'
RECURSIVE version_from(_, _)
version_from(s, i) ==
    IF i > Len(s) THEN DefaultVersion
    ELSE IF VersionAt(s, i) # <<>> THEN VersionAt(s, i)
    ELSE version_from(s, i + 1)

\* The loop over azps_dir.rglob('*.md'), visiting the files in the order ver_files
RECURSIVE module_version_map(_, _, _)
module_version_map(ver_files, i, map) ==
    IF i > Len(ver_files) THEN map
    ELSE LET fm == ver_files[i].front
         IN  IF /\ "Module Version" \in DOMAIN fm
                /\ "Module Name" \in DOMAIN fm
                /\ fm["Module Name"] \notin DictKeys(map)
             THEN module_version_map(ver_files, i + 1,
                                     DictSet(map, fm["Module Name"], fm["Module Version"]))
             ELSE module_version_map(ver_files, i + 1, map)

OtherVerb == <<"O","t","h","e","r">> (* Other *)

\* VERB_RE.match(cname): group 1, else 'Other'
verb_of(cname) ==
    IF VerbLength(cname) > 0 THEN SubSeq(cname, 1, VerbLength(cname)) ELSE OtherVerb

\* A description index that keeps the first description of a name
record_description_keep_first(descs, cname, description) ==
    IF description # <<>> /\ cname \notin DictKeys(descs)
    THEN DictSet(descs, cname, description)
    ELSE descs

\* if result['description']: descriptions[cname] = result['description']
record_description(descs, cname, description) ==
    IF description # <<>> THEN DictSet(descs, cname, description) ELSE descs

\* What the loop over a module directory's files does with the result res
add_result(acc, res, module_name, category) ==
    IF res = None THEN acc
    ELSE [manifest_entries |->
              Append(acc.manifest_entries,
                     [n |-> res.name, v |-> verb_of(res.name), m |-> module_name,
                      c |-> category, e |-> res.examples # <<>>]),
          descriptions |-> record_description(acc.descriptions, res.name, res.description),
          module_cmdlets |->
              DictSet(acc.module_cmdlets, res.name,
                      [syntax |-> res.syntax, examples |-> res.examples])]

\* The body of the loop over a module directory's files, for one file
scan_file(acc, md_file, module_name, category) ==
    add_result(acc, parse_cmdlet_doc(md_file), module_name, category)

RECURSIVE scan_files(_, _, _, _, _)
scan_files(md_files, i, acc, module_name, category) ==
    IF i > Len(md_files) THEN acc
    ELSE scan_files(md_files, i + 1, scan_file(acc, md_files[i], module_name, category),
                    module_name, category)

\* A bundle emitted for every module directory, also one without cmdlets
emit_bundle_always(data, module_name, mod_version, module_cmdlets) ==
    DictSet(data, module_name,
            [module |-> module_name, version |-> mod_version, cmdlets |-> module_cmdlets])

\* if module_cmdlets: modules_data[module_name] = {...}
emit_bundle(data, module_name, mod_version, module_cmdlets) ==
    IF module_cmdlets # <<>>
    THEN DictSet(data, module_name,
                 [module |-> module_name, version |-> mod_version, cmdlets |-> module_cmdlets])
    ELSE data

\* The end of the loop body for a module directory, its files scanned
end_dir(acc, scanned, module_name, mod_version) ==
    [manifest_entries |-> scanned.manifest_entries,
     descriptions |-> scanned.descriptions,
     modules_data |-> emit_bundle(acc.modules_data, module_name, mod_version,
                                  scanned.module_cmdlets)]

\* sorted(mod_dir.glob('*.md'))
md_files(docs, mod_dir) ==
    sorted({d \in docs : SubSeq(d.path, 1, Len(d.path) - 1) = mod_dir.path})

\* The body of the loop over the version directory's entries, for one entry
scan_dir(acc, mod_dir, docs, version_map) ==
    IF ~mod_dir.is_dir \/ ~startswith(name(mod_dir), AzDot) THEN acc
    ELSE end_dir(acc,
                 scan_files(md_files(docs, mod_dir), 1,
                            [manifest_entries |-> acc.manifest_entries,
                             descriptions |-> acc.descriptions,
                             module_cmdlets |-> <<>>],
                            name(mod_dir), get_category(name(mod_dir))),
                 name(mod_dir),
                 DictGet(version_map, name(mod_dir), DefaultVersion))

RECURSIVE scan_dirs(_, _, _, _, _)
scan_dirs(mod_dirs, j, acc, docs, version_map) ==
    IF j > Len(mod_dirs) THEN acc
    ELSE scan_dirs(mod_dirs, j + 1, scan_dir(acc, mod_dirs[j], docs, version_map),
                   docs, version_map)

\* The module_version_map main can build: azps_dir.rglob('*.md') yields the files
\* in an order the file system chooses
version_maps(docs, dir) ==
    {module_version_map(ver_files, 1, <<>>) :
        ver_files \in Enumerations({d \in docs : IsUnder(d.path, dir.path)})}

\* What main computes from the version directory chosen and the version map
aggregate(docs, dir, version_map) ==
    scan_dirs(sorted(iterdir(entries(docs), dir.path)), 1,
              [manifest_entries |-> <<>>, descriptions |-> <<>>, modules_data |-> <<>>],
              docs, version_map)

\* The writers: manifest.json, descriptions.json and one file per module of
\* modules_data are opened for writing; nothing else under public/data is touched
write_outputs(old, ver, agg) ==
    [dirs |-> TRUE,
     manifest |-> <<[v |-> ver, d |-> agg.manifest_entries]>>,
     descriptions |-> <<agg.descriptions>>,
     modules |-> [m \in DOMAIN old.modules \cup DictKeys(agg.modules_data) |->
                     IF m \in DictKeys(agg.modules_data)
                     THEN DictGet(agg.modules_data, m, <<>>)
                     ELSE old.modules[m]]]

(***************************************************************************)
(* Specification of get_category alone                                     *)
(***************************************************************************)
NameParts == {<<>>, <<"S","q","l">> (* Sql *), <<"S","Q","L">> (* SQL *), <<"N","e","t","w","o","r","k">> (* Network *), <<"A","p","p">> (* App *), <<"K","e","y","V","a","u","l","t">> (* KeyVault *), <<"X">>, <<"B","a","c","k","u","p">> (* Backup *),
              <<"s","t","o","r","a","g","e">> (* storage *), <<"W","e","b","s","i","t","e","s">> (* Websites *)}

NamePrefixes == {<<"A","z",".">> (* Az. *), <<"a","z",".">> (* az. *), <<>>}

ModuleNames == {p \o a \o b : p \in NamePrefixes, a \in NameParts, b \in NameParts}

MainIdle ==
    /\ docs_root = <<>>
    /\ out = <<>>
    /\ status = "none"
    /\ runs = 0
    /\ azps_dir = <<>>
    /\ version = <<>>
    /\ manifest_entries = <<>>
    /\ descriptions = <<>>
    /\ modules_data = <<>>

InitCategory ==
    /\ MainIdle
    /\ input \in ModuleNames
    /\ result = "<none>"
    /\ pc = "call"

CallGetCategory ==
    /\ pc = "call"
    /\ result' = get_category(input)
    /\ pc' = "return"
    /\ UNCHANGED <<input, mainVars>>

NextCategory == CallGetCategory

SpecCategory == InitCategory /\ [][NextCategory]_vars

(***************************************************************************)
(* Specification of find_latest_azps_dir alone                             *)
(***************************************************************************)
EntryPool ==
    { Dir(<<<<"a","z","p","s","-","1",".","2",".","3">> (* azps-1.2.3 *)>>), Dir(<<<<"a","z","p","s","-","1",".","1","0",".","0">> (* azps-1.10.0 *)>>), Dir(<<<<"a","z","p","s","-","1",".","9",".","9">> (* azps-1.9.9 *)>>),
      Dir(<<<<"a","z","p","s","-","f","o","o">> (* azps-foo *)>>), File(<<<<"a","z","p","s","-","9",".","0",".","0">> (* azps-9.0.0 *)>>),
      Dir(<<<<"d","o","c","s">> (* docs *)>>), Dir(<<<<"s","r","c">> (* src *)>>),
      Dir(<<<<"d","o","c","s">> (* docs *), <<"a","z","p","s","-","2",".","0",".","0">> (* azps-2.0.0 *)>>), Dir(<<<<"d","o","c","s">> (* docs *), <<"a","z","p","s","-","1",".","1","0",".","0">> (* azps-1.10.0 *)>>),
      Dir(<<<<"s","r","c">> (* src *), <<"a","z","p","s","-","2",".","0",".","0">> (* azps-2.0.0 *)>>), File(<<<<"s","r","c">> (* src *), <<"a","z","p","s","-","3",".","0",".","0">> (* azps-3.0.0 *)>>) }

\* The trees over a pool of entries: an entry's parent directory is in the tree
TreesOver(pool) ==
    {t \in SUBSET pool :
        \A e \in t : Len(e.path) = 2 => Dir(<<e.path[1]>>) \in t}

InitVersion ==
    /\ MainIdle
    /\ input \in TreesOver(EntryPool)
    /\ result = [raised |-> "<none>"]
    /\ pc = "call"

CallFindLatest ==
    /\ pc = "call"
    /\ \E list \in Enumerations(candidates(input)) :
          result' = find_latest_azps_dir(list)
    /\ pc' = "return"
    /\ UNCHANGED <<input, mainVars>>

NextVersion == CallFindLatest

SpecVersion == InitVersion /\ [][NextVersion]_vars

(***************************************************************************)
(* Specification of extract_code_blocks alone                              *)
(*                                                                         *)
(* A section is written from a list of fenced blocks, each a language tag  *)
(* and its lines, with a heading before each block.                        *)
(***************************************************************************)
MaxSectionBlocks == 4

BlockPool ==
    { [tag |-> <<"p","o","w","e","r","s","h","e","l","l">> (* powershell *), lines |-> <<<<"#"," ","o","n","l","y"," ","a"," ","c","o","m","m","e","n","t">> (* # only a comment *)>>],
      [tag |-> <<>>, lines |-> <<<<"G","e","t","-","A","z","F","o","o"," ","-","N","a","m","e"," ","x">> (* Get-AzFoo -Name x *)>>],
      [tag |-> <<"P","o","w","e","r","S","h","e","l","l">> (* PowerShell *), lines |-> <<<<"#"," ","c">> (* # c *), <<" "," ","N","e","w","-","A","z","F","o","o"," ">> (*   New-AzFoo  *), <<" "," "," ","#"," ","d">> (*    # d *), <<"$","x">>>>],
      [tag |-> <<"p","s","1">> (* ps1 *), lines |-> <<>>],
      [tag |-> <<"p","o","s","h">> (* posh *), lines |-> <<<<>>, <<" "," ","#"," ","c">> (*   # c *), <<>>>>],
      [tag |-> <<>>, lines |-> <<<<"a">>, <<>>, <<"b"," ","#"," ","n","o","t"," ","a"," ","c","o","m","m","e","n","t">> (* b # not a comment *)>>] }

\* The arguments parse_cmdlet_doc passes (1 and 3, the default) and the one between
MaxBlocksArgs == {1, 2, 3}

RECURSIVE RenderLines(_)
RenderLines(lines) ==
    IF lines = <<>> THEN <<>> ELSE Head(lines) \o <<"\n">> \o RenderLines(Tail(lines))

RenderBlock(b) == <<"#","#","#"," ","E","x","a","m","p","l","e","\n">> \o Fence \o b.tag \o <<"\n">> \o RenderLines(b.lines)
                    \o Fence \o <<"\n","\n">>

RECURSIVE RenderSection(_)
RenderSection(blocks) ==
    IF blocks = <<>> THEN <<>> ELSE RenderBlock(Head(blocks)) \o RenderSection(Tail(blocks))

SectionBlocks == UNION {[1..n -> BlockPool] : n \in 0..MaxSectionBlocks}

InitBlocks ==
    /\ MainIdle
    /\ input \in [blocks : SectionBlocks, max_blocks : MaxBlocksArgs]
    /\ result = <<>>
    /\ pc = "call"

CallExtractCodeBlocks ==
    /\ pc = "call"
    /\ result' = extract_code_blocks(RenderSection(input.blocks), input.max_blocks)
    /\ pc' = "return"
    /\ UNCHANGED <<input, mainVars>>

NextBlocks == CallExtractCodeBlocks

SpecBlocks == InitBlocks /\ [][NextBlocks]_vars

(***************************************************************************)
(* Specification of parse_cmdlet_doc alone                                 *)
(***************************************************************************)
ParentPool == {<<"A","z",".","S","q","l">> (* Az.Sql *), <<"A","z",".","F","o","o">> (* Az.Foo *), <<"d","o","c","s">> (* docs *)}

FilePool == {<<"G","e","t","-","A","z","S","q","l","S","e","r","v","e","r",".","m","d">> (* Get-AzSqlServer.md *), <<"g","e","t","-","A","z","F","o","o",".","m","d">> (* get-AzFoo.md *), <<"A","z",".","S","q","l",".","m","d">> (* Az.Sql.md *)}

TitlePool == {<<"N","e","w","-","A","z","S","q","l","D","a","t","a","b","a","s","e">> (* New-AzSqlDatabase *), <<"A","z",".","S","q","l"," ","o","v","e","r","v","i","e","w">> (* Az.Sql overview *), <<>>}

ModuleNamePool == {<<"A","z",".","S","q","l">> (* Az.Sql *), <<"A","z",".","O","t","h","e","r">> (* Az.Other *), <<"S","q","l">> (* Sql *), <<>>}

SynopsisPool == {<<>>, <<"*","*","[","G","e","t","s","]","(","h","t","t","p","s",":","/","/","x",")"," ","a"," ",BT,"s","e","r","v","e","r",BT,".","*","*","\n","M","o","r","e"," ","t","e","x","t",".">>}

ExamplesPool == {<<>>, RenderSection(<<[tag |-> <<"p","o","w","e","r","s","h","e","l","l">> (* powershell *), lines |-> <<<<"#"," ","c">> (* # c *), <<"G","e","t","-","A","z","S","q","l","S","e","r","v","e","r">> (* Get-AzSqlServer *)>>]>>)}

\* The front matter mappings over the keys title and Module Name, each present or not
FrontPool ==
    UNION { [keys -> TitlePool \cup ModuleNamePool] : keys \in SUBSET {"title", "Module Name"} }

Fronts ==
    {f \in FrontPool :
        /\ "title" \in DOMAIN f => f["title"] \in TitlePool
        /\ "Module Name" \in DOMAIN f => f["Module Name"] \in ModuleNamePool}

InitDoc ==
    /\ MainIdle
    /\ \E p \in ParentPool, f \in FilePool, fm \in Fronts, s \in SynopsisPool, e \in ExamplesPool :
          input = [path |-> <<p, f>>, front |-> fm, synopsis |-> s, syntax |-> e, examples |-> e]
    /\ result = [pending |-> TRUE]
    /\ pc = "call"

CallParseCmdletDoc ==
    /\ pc = "call"
    /\ result' = parse_cmdlet_doc(input)
    /\ pc' = "return"
    /\ UNCHANGED <<input, mainVars>>

NextDoc == CallParseCmdletDoc

SpecDoc == InitDoc /\ [][NextDoc]_vars

(***************************************************************************)
(* Specification of main: runs of the pipeline on input trees              *)
(***************************************************************************)
MaxRuns == 2

MaxDocs == 2

V110 == <<"a","z","p","s","-","1",".","1","0",".","0">> (* azps-1.10.0 *)

V110Preview == <<"a","z","p","s","-","1",".","1","0",".","0","-","p","r","e","v","i","e","w">> (* azps-1.10.0-preview *)

V19 == <<"a","z","p","s","-","1",".","9",".","0">> (* azps-1.9.0 *)

CodeBlock == RenderSection(<<[tag |-> <<"p","o","w","e","r","s","h","e","l","l">> (* powershell *), lines |-> <<<<"#"," ","l","i","s","t">> (* # list *), <<"G","e","t","-","A","z","S","q","l","S","e","r","v","e","r">> (* Get-AzSqlServer *)>>]>>)

CommentBlock == RenderSection(<<[tag |-> <<>>, lines |-> <<<<"#"," ","n","o","t","h","i","n","g"," ","t","o"," ","r","u","n">> (* # nothing to run *)>>]>>)

Doc(path, front, synopsis, syntax, examples) ==
    [path |-> path, front |-> front, synopsis |-> synopsis, syntax |-> syntax,
     examples |-> examples]

NoFront == [k \in {} |-> <<>>]

DocPool ==
    { Doc(<<V110, <<"A","z",".","S","q","l">> (* Az.Sql *), <<"G","e","t","-","A","z","S","q","l","S","e","r","v","e","r",".","m","d">> (* Get-AzSqlServer.md *)>>,
          ("Module Name" :> <<"A","z",".","S","q","l">> (* Az.Sql *) @@ "Module Version" :> <<"1",".","0",".","0">> (* 1.0.0 *)),
          <<"G","e","t","s"," ","a"," ","s","e","r","v","e","r",".">> (* Gets a server. *), CodeBlock, CodeBlock),
      Doc(<<V110, <<"A","z",".","S","q","l">> (* Az.Sql *), <<"N","e","w","-","A","z","S","q","l","S","e","r","v","e","r",".","m","d">> (* New-AzSqlServer.md *)>>,
          ("title" :> <<"G","e","t","-","A","z","S","q","l","S","e","r","v","e","r">> (* Get-AzSqlServer *) @@ "Module Name" :> <<"A","z",".","S","q","l">> (* Az.Sql *)
             @@ "Module Version" :> <<"2",".","0",".","0">> (* 2.0.0 *)),
          <<>>, <<>>, <<>>),
      Doc(<<V110, <<"A","z",".","S","q","l">> (* Az.Sql *), <<"A","z",".","S","q","l",".","m","d">> (* Az.Sql.md *)>>,
          ("Module Name" :> <<"A","z",".","S","q","l">> (* Az.Sql *) @@ "Module Version" :> <<"3",".","0",".","0">> (* 3.0.0 *)),
          <<"T","h","e"," ","m","o","d","u","l","e",".">> (* The module. *), <<>>, <<>>),
      Doc(<<V110, <<"A","z",".","F","o","o">> (* Az.Foo *), <<"g","e","t","-","A","z","F","o","o",".","m","d">> (* get-AzFoo.md *)>>, NoFront, <<"G","e","t","s"," ","a"," ","f","o","o",".">> (* Gets a foo. *), CodeBlock, <<>>),
      Doc(<<V110, <<"A","z",".","F","o","o">> (* Az.Foo *), <<"G","e","t","-","A","z","S","q","l","S","e","r","v","e","r",".","m","d">> (* Get-AzSqlServer.md *)>>, NoFront,
          <<"*","*","[","G","e","t","s","]","(","h","t","t","p","s",":","/","/","x",")"," ","a"," ",BT,"f","o","o",BT,".","*","*","\n","M","o","r","e",".">>, <<>>, CommentBlock),
      Doc(<<V110Preview, <<"A","z",".","S","q","l">> (* Az.Sql *), <<"G","e","t","-","A","z","S","q","l","S","e","r","v","e","r",".","m","d">> (* Get-AzSqlServer.md *)>>,
          ("Module Name" :> <<"A","z",".","S","q","l">> (* Az.Sql *)), <<"P","r","e","v","i","e","w",".">> (* Preview. *), <<>>, <<>>),
      Doc(<<V19, <<"A","z",".","O","l","d">> (* Az.Old *), <<"R","e","m","o","v","e","-","A","z","O","l","d",".","m","d">> (* Remove-AzOld.md *)>>,
          ("title" :> <<"R","e","m","o","v","e","-","A","z","O","l","d">> (* Remove-AzOld *) @@ "Module Name" :> <<"O","l","d">> (* Old *)), <<"R","e","m","o","v","e","s",".">> (* Removes. *), <<>>, <<>>),
      Doc(<<V19, <<"A","z",".","O","l","d">> (* Az.Old *), <<"S","e","t","-","A","z","O","l","d",".","m","d">> (* Set-AzOld.md *)>>, NoFront, <<>>, CodeBlock, CodeBlock) }

\* The input trees: up to MaxDocs documents of the pool
MainTrees == {docs \in SUBSET DocPool : Cardinality(docs) <= MaxDocs}

Init ==
    /\ docs_root = {}
    /\ out = [dirs |-> FALSE, manifest |-> <<>>, descriptions |-> <<>>, modules |-> <<>>]
    /\ status = "none"
    /\ runs = 0
    /\ azps_dir = <<>>
    /\ version = <<>>
    /\ manifest_entries = <<>>
    /\ descriptions = <<>>
    /\ modules_data = <<>>
    /\ input = <<>>
    /\ result = <<>>
    /\ pc = "main"

\* main on a tree without a version directory: modules_dir.mkdir(parents=True,
\* exist_ok=True) has run when find_latest_azps_dir raises FileNotFoundError
MainNotFound(docs) ==
    /\ find_latest_azps_dir(<<>>).raised = "FileNotFoundError"
    /\ candidates(entries(docs)) = {}
    /\ out' = [out EXCEPT !.dirs = TRUE]
    /\ status' = "notfound"
    /\ azps_dir' = <<>>
    /\ version' = <<>>
    /\ manifest_entries' = <<>>
    /\ descriptions' = <<>>
    /\ modules_data' = <<>>

\* The end of main: its locals as computed, the three writers run
Finish(dir, ver, agg) ==
    /\ azps_dir' = dir.path
    /\ version' = ver
    /\ manifest_entries' = agg.manifest_entries
    /\ descriptions' = agg.descriptions
    /\ modules_data' = agg.modules_data
    /\ out' = write_outputs(out, ver, agg)
    /\ status' = "ok"

\* main from the version directory found; rglob yields the files in any order
MainFrom(docs, dir) ==
    \E version_map \in version_maps(docs, dir) :
        Finish(dir, version_from(name(dir), 1), aggregate(docs, dir, version_map))

\* The directories find_latest_azps_dir can return: iterdir yields the
\* candidates in an order the file system chooses
latest_dirs(docs) ==
    {find_latest_azps_dir(list).value : list \in Enumerations(candidates(entries(docs)))}

\* main on a tree with a version directory, to its last line
MainOk(docs) ==
    /\ candidates(entries(docs)) # {}
    /\ \E dir \in latest_dirs(docs) : MainFrom(docs, dir)

\* One run of main on the tree docs, to its end or to the exception
Run(docs) ==
    /\ runs < MaxRuns
    /\ docs_root' = docs
    /\ runs' = runs + 1
    /\ UNCHANGED fnVars

Main ==
    \/ \E docs \in MainTrees : Run(docs) /\ MainNotFound(docs)
    \/ \E docs \in MainTrees : Run(docs) /\ MainOk(docs)

Next == Main

Spec == Init /\ [][Next]_vars

(***************************************************************************)
(* Claims about extract_code_blocks                                        *)
(***************************************************************************)
\* l without its leading and trailing white space
Trimmed(l) ==
    LET solid == {i \in 1..Len(l) : ~IsSpace(l[i])}
    IN  IF solid = {} THEN <<>>
        ELSE SubSeq(l, CHOOSE i \in solid : \A j \in solid : i <= j,
                       CHOOSE i \in solid : \A j \in solid : j <= i)

StartsWithHash(l) == Trimmed(l) # <<>> /\ Trimmed(l)[1] = "#"

IsCodeLine(l) == Trimmed(l) # <<>> /\ Trimmed(l)[1] # "#"

\* The lines of a block that are neither comments nor blank, trimmed
CodeLines(lines) ==
    LET kept == SelectSeq(lines, IsCodeLine)
    IN  [i \in 1..Len(kept) |-> Trimmed(kept[i])]

\* The blocks the extractor may use: the first max_blocks, in source order
Considered == Take(input.blocks, input.max_blocks)

\* C10: extract_code_blocks(section, max) considers only the first max fenced
\* blocks in source order, removes from each every line whose trimmed content
\* starts with "#", and returns, in source order, exactly those of them whose
\* cleaned content is non-empty; the result has at most max elements, contains no
\* empty string and no comment line, and is empty when every considered block
\* holds only comments.
C10_FirstMaxBlocksCleaned ==
    pc = "return" =>
        LET expected == SelectSeq([i \in 1..Len(Considered) |->
                                      CodeLines(Considered[i].lines)], NonEmpty)
        IN  /\ Len(result) <= input.max_blocks
            /\ \A i \in 1..Len(result) :
                 /\ result[i] # <<>>
                 /\ \A n \in 1..Len(splitlines(result[i])) :
                      ~StartsWithHash(splitlines(result[i])[n])
            /\ Len(result) = Len(expected)
            /\ \A i \in 1..Len(result) : CodeLines(splitlines(result[i])) = expected[i]
            /\ (\A i \in 1..Len(Considered) :
                  \A n \in 1..Len(Considered[i].lines) : ~IsCodeLine(Considered[i].lines[n]))
                 => result = <<>>

\* A section with more blocks than max whose considered blocks hold only comments
\* and whose later block holds code: nothing was returned.
C10_Witness ==
    /\ pc = "return"
    /\ Len(input.blocks) > input.max_blocks
    /\ input.max_blocks > 1
    /\ \A i \in 1..input.max_blocks : CodeLines(input.blocks[i].lines) = <<>>
    /\ \E i \in (input.max_blocks + 1)..Len(input.blocks) :
          CodeLines(input.blocks[i].lines) # <<>>
    /\ \E i \in 1..input.max_blocks : input.blocks[i].lines # <<>>
    /\ result = <<>>

(***************************************************************************)
(* Claims about find_latest_azps_dir                                       *)
(***************************************************************************)
\* a and b agree before position k
SamePrefix(a, b, k) == \A i \in 1..(k - 1) : a[i] = b[i]

\* a <= b in numeric lexicographic order, a proper prefix being smaller
LexLeq(a, b) ==
    \/ Len(a) <= Len(b) /\ SamePrefix(a, b, Len(a) + 1)
    \/ \E k \in 1..Len(a) : k <= Len(b) /\ SamePrefix(a, b, k) /\ a[k] < b[k]

\* The integers of a name, read position by position: the digit run that ends
\* at position i, as a number
RunValue(s, i) ==
    LET start == CHOOSE j \in 1..i :
                    /\ \A k \in j..i : IsDigit(s[k])
                    /\ (j = 1 \/ ~IsDigit(s[j - 1]))
        Pow10[n \in 0..Len(s)] == IF n = 0 THEN 1 ELSE 10 * Pow10[n - 1]
        Sum[k \in start - 1..i] ==
            IF k < start THEN 0 ELSE Sum[k - 1] + DigitValue(s[k]) * Pow10[i - k]
    IN  Sum[i]

RunEnds(s) == {i \in 1..Len(s) : IsDigit(s[i]) /\ (i = Len(s) \/ ~IsDigit(s[i + 1]))}

\* The tuple of integers parsed from a name
NameTuple(s) ==
    LET ends == RunEnds(s)
        Nth(n) == CHOOSE i \in ends : Cardinality({j \in ends : j < i}) = n - 1
    IN  [n \in 1..Cardinality(ends) |-> RunValue(s, Nth(n))]

\* A name made of the package prefix and a dotted numeric version, as azps-1.2.3
IsVersionedName(s) ==
    /\ startswith(s, AzpsDash)
    /\ LET v == SubSeq(s, Len(AzpsDash) + 1, Len(s))
       IN  /\ v # <<>>
           /\ \A i \in 1..Len(v) : IsDigit(v[i]) \/ v[i] = "."
           /\ IsDigit(v[1]) /\ IsDigit(v[Len(v)])
           /\ \A i \in 1..(Len(v) - 1) : ~(v[i] = "." /\ v[i + 1] = ".")

ChildDirs(tree, Ok(_)) == {d \in tree : Len(d.path) = 1 /\ d.is_dir /\ Ok(name(d))}

GrandchildDirs(tree, Ok(_)) ==
    {d \in tree : Len(d.path) = 2 /\ d.is_dir /\ Ok(name(d))
                    /\ Dir(<<d.path[1]>>) \in tree}

\* The candidate directories: the children of the root with an acceptable name,
\* or, only when there is none, the grandchildren with such a name
CandidatesBy(tree, Ok(_)) ==
    IF ChildDirs(tree, Ok) # {} THEN ChildDirs(tree, Ok) ELSE GrandchildDirs(tree, Ok)

ReturnsGreatest(C) ==
    C # {} => /\ DOMAIN result = {"value"}
              /\ result.value \in C
              /\ \A c \in C : LexLeq(NameTuple(name(c)), NameTuple(name(result.value)))

HasAzpsPrefix(s) == startswith(s, AzpsDash)

\* C4 as stated: the candidates are the directories named by the package prefix
\* followed by a dotted numeric version, and the one returned has the greatest
\* tuple of integers.
C4_AsStated == pc = "return" => ReturnsGreatest(CandidatesBy(input, IsVersionedName))

\* C4 as amended: find_latest_azps_dir returns, among the candidate directories
\* (the immediate children of the root whose name starts with "azps-", whatever
\* follows it, or, only when there is no such child, the grandchildren of the root
\* with such a name), one whose tuple of integers parsed from its name is greatest
\* under numeric lexicographic comparison; a name without digits has the empty
\* tuple, the least.
C4_GreatestOfAzpsDirs == pc = "return" => ReturnsGreatest(CandidatesBy(input, HasAzpsPrefix))

\* Among azps-1.2.3, azps-1.10.0 and azps-1.9.9 the resolver returned azps-1.10.0.
C4_Witness ==
    /\ pc = "return"
    /\ {Dir(<<<<"a","z","p","s","-","1",".","2",".","3">> (* azps-1.2.3 *)>>), Dir(<<<<"a","z","p","s","-","1",".","1","0",".","0">> (* azps-1.10.0 *)>>), Dir(<<<<"a","z","p","s","-","1",".","9",".","9">> (* azps-1.9.9 *)>>)} \subseteq input
    /\ result = [value |-> Dir(<<<<"a","z","p","s","-","1",".","1","0",".","0">> (* azps-1.10.0 *)>>)]

(***************************************************************************)
(* Claims about get_category                                               *)
(***************************************************************************)
RuleIndexes == 1..Len(CATEGORY_MAP)

\* The rules whose key equals the suffix, case folded
ExactRules(suffix) == {i \in RuleIndexes : lower(CATEGORY_MAP[i][1]) = lower(suffix)}

\* The rules whose key occurs in the suffix, case folded
SubstringRules(suffix) ==
    {i \in RuleIndexes : contains(lower(suffix), lower(CATEGORY_MAP[i][1]))}

FirstOf(S) == CHOOSE i \in S : \A j \in S : i <= j

\* C5: get_category returns the category of the first rule, in list order, whose
\* key equals the prefix-stripped suffix case-insensitively; when there is none,
\* that of the first rule whose key is a case-insensitive substring of the suffix;
\* when there is none either, "Other".  A substring match never overrides an
\* exact match.
C5_TwoPassLookup ==
    pc = "return" =>
        LET suffix == removeprefix(input, AzDot)
        IN  /\ ExactRules(suffix) # {} =>
                result = CATEGORY_MAP[FirstOf(ExactRules(suffix))][2]
            /\ ExactRules(suffix) = {} /\ SubstringRules(suffix) # {} =>
                result = CATEGORY_MAP[FirstOf(SubstringRules(suffix))][2]
            /\ SubstringRules(suffix) = {} => result = "Other"

\* A module whose suffix holds the keys of two rules of different categories and
\* equals none: the earlier rule decided, in a name written in another case.
C5_Witness ==
    /\ pc = "return"
    /\ LET suffix == removeprefix(input, AzDot)
       IN  /\ ExactRules(suffix) = {}
           /\ \E i, j \in SubstringRules(suffix) :
                /\ i < j
                /\ CATEGORY_MAP[i][2] # CATEGORY_MAP[j][2]
                /\ result = CATEGORY_MAP[i][2]
                /\ ~contains(suffix, CATEGORY_MAP[j][1])

(***************************************************************************)
(* Claims about parse_cmdlet_doc                                           *)
(***************************************************************************)
\* The document has an acceptable command name: it is no module index page and
\* its resolved name has the verb shape
HasCommandName(doc) ==
    /\ ~is_module_index(stem(name(doc)))
    /\ is_cmdlet_name(resolve_name(doc.front, stem(name(doc))))

FrontModule(doc) == FrontGet(doc.front, "Module Name", <<>>)

\* C7 as stated: the module is the front-matter Module Name when present,
\* otherwise the parent directory name when it starts with "Az."; the document is
\* rejected only when neither of the two sources gives a name starting with "Az.".
C7_AsStated ==
    (pc = "return" /\ HasCommandName(input)) =>
        /\ result = None =>
              /\ ~startswith(FrontModule(input), AzDot)
              /\ ~startswith(parent_name(input.path), AzDot)
        /\ result # None =>
              result.module = IF FrontModule(input) # <<>> THEN FrontModule(input)
                              ELSE parent_name(input.path)

\* The one module name parse_cmdlet_doc considers: the front-matter field when
\* present and not empty, else the parent directory name when it starts with "Az."
ChosenModule(doc) ==
    IF FrontModule(doc) # <<>> THEN FrontModule(doc)
    ELSE IF startswith(parent_name(doc.path), AzDot) THEN parent_name(doc.path)
    ELSE <<>>

\* C7 as amended: for a document with an acceptable command name, the module is
\* the front-matter Module Name field when present and not empty, otherwise the
\* immediate parent directory name when it starts with "Az."; the document is
\* rejected exactly when the name so chosen does not start with "Az." -- a
\* front-matter Module Name without the prefix rejects the document even when the
\* parent directory name has it.
C7_ModuleResolution ==
    (pc = "return" /\ HasCommandName(input)) =>
        /\ result = None <=> ~startswith(ChosenModule(input), AzDot)
        /\ result # None => result.module = ChosenModule(input)

\* A command document in directory Az.Sql whose front matter names the module
\* Sql was rejected.
C7_Witness ==
    /\ pc = "return"
    /\ HasCommandName(input)
    /\ FrontModule(input) = <<"S","q","l">> (* Sql *)
    /\ parent_name(input.path) = <<"A","z",".","S","q","l">> (* Az.Sql *)
    /\ result = None

(***************************************************************************)
(* Claims about main                                                       *)
(***************************************************************************)
\* C1: running main twice in a row on the same input tree produces the same
\* content for manifest.json, descriptions.json and every module file, whatever
\* order the file system enumerates the documents in.
C1_Idempotent ==
    [][(status = "ok" /\ status' = "ok" /\ runs' = runs + 1 /\ docs_root' = docs_root)
          => out' = out]_vars

\* C2: after a successful run the files under the output directory and their
\* contents are exactly those computed from the input of that run; no module
\* file of an earlier run survives.
C2_FullOverwrite ==
    status = "ok" =>
        /\ out.manifest = <<[v |-> version, d |-> manifest_entries]>>
        /\ out.descriptions = <<descriptions>>
        /\ DOMAIN out.modules = DictKeys(modules_data)
        /\ \A m \in DOMAIN out.modules : out.modules[m] = DictGet(modules_data, m, <<>>)

\* C3: a run that finds no version directory leaves the output location as it
\* was: no file and no directory is created or modified under it.
C3_AbortLeavesOutput ==
    [][(status' = "notfound" /\ runs' = runs + 1) => out' = out]_vars

\* The documents the last run's loop read: those directly inside the Az.*
\* directories of the version directory it chose
ScannedDocs ==
    {d \in docs_root : /\ Len(d.path) = Len(azps_dir) + 2
                       /\ SubSeq(d.path, 1, Len(azps_dir)) = azps_dir
                       /\ startswith(d.path[Len(d.path) - 1], AzDot)}

ModuleDir(d) == d.path[Len(d.path) - 1]

\* The name a document is known by: its front-matter title, else its base name
ResolvedName(d) ==
    IF "title" \in DOMAIN d.front /\ d.front["title"] # <<>> THEN d.front["title"]
    ELSE stem(d.path[Len(d.path)])

\* s is a capitalized word of length k followed by -Az
VerbShape(s, k) ==
    /\ k >= 2 /\ Len(s) >= k + 3
    /\ IsUpper(s[1])
    /\ \A j \in 2..k : IsLower(s[j])
    /\ s[k + 1] = "-" /\ s[k + 2] = "A" /\ s[k + 3] = "z"

HasVerbShape(s) == \E k \in 1..Len(s) : VerbShape(s, k)

EntriesOf(m) == {i \in 1..Len(manifest_entries) : manifest_entries[i].m = m}

\* C6: in every manifest main produces, every entry's name starts with a
\* capitalized word followed by "-Az", its verb is exactly that word and never
\* the fallback "Other", and its module starts with "Az."; a document whose
\* resolved name does not have this shape produces no entry (a module has no more
\* entries than documents of that shape).
C6_EntryShape ==
    status = "ok" =>
        /\ out.manifest = <<[v |-> version, d |-> manifest_entries]>>
        /\ \A i \in 1..Len(manifest_entries) :
             LET e == manifest_entries[i]
             IN  /\ \E k \in 1..Len(e.n) : VerbShape(e.n, k) /\ e.v = SubSeq(e.n, 1, k)
                 /\ e.v # OtherVerb
                 /\ Len(e.m) >= 3 /\ e.m[1] = "A" /\ e.m[2] = "z" /\ e.m[3] = "."
                 /\ \E d \in ScannedDocs : ModuleDir(d) = e.m /\ ResolvedName(d) = e.n
        /\ \A m \in {ModuleDir(d) : d \in ScannedDocs} \cup
                    {manifest_entries[i].m : i \in 1..Len(manifest_entries)} :
             Cardinality(EntriesOf(m))
                <= Cardinality({d \in ScannedDocs : ModuleDir(d) = m /\ HasVerbShape(ResolvedName(d))})

\* A run that read a document named without the verb shape and one with it: the
\* manifest holds the one entry.
C6_Witness ==
    /\ status = "ok"
    /\ Len(manifest_entries) = 1
    /\ \E d \in ScannedDocs : ~HasVerbShape(ResolvedName(d)) /\ ~is_module_index(stem(name(d)))
    /\ \E d \in ScannedDocs : "title" \in DOMAIN d.front /\ ResolvedName(d) = manifest_entries[1].n

\* The documents the last run accepted
Accepted == {d \in ScannedDocs : parse_cmdlet_doc(d) # None}

\* a < b as text, by code point
TextBefore(a, b) ==
    \/ Len(a) < Len(b) /\ SamePrefix(a, b, Len(a) + 1)
    \/ \E k \in 1..Len(a) : k <= Len(b) /\ SamePrefix(a, b, k) /\ Ord(a[k]) < Ord(b[k])

\* Discovery order: by module directory name, then by file name
Discovered(a, b) ==
    \/ TextBefore(ModuleDir(a), ModuleDir(b))
    \/ ModuleDir(a) = ModuleDir(b) /\ TextBefore(name(a), name(b))

LastOf(S) == CHOOSE d \in S : \A x \in S \ {d} : Discovered(x, d)

Named(n) == {d \in Accepted : parse_cmdlet_doc(d).name = n}

Described(n) == {d \in Named(n) : parse_cmdlet_doc(d).description # <<>>}

UniqueKeys(dict) == \A i, j \in 1..Len(dict) : dict[i][1] = dict[j][1] => i = j

\* C8 as stated: when two accepted documents yield the same command name, the
\* description index maps the name to the description of the later document in
\* discovery order; the keys are unique.
C8_AsStated ==
    status = "ok" =>
        /\ UniqueKeys(descriptions)
        /\ \A d \in Accepted :
             LET n == parse_cmdlet_doc(d).name
             IN  Cardinality(Named(n)) >= 2 =>
                    DictGet(descriptions, n, <<>>) = parse_cmdlet_doc(LastOf(Named(n))).description

\* C8 as amended: when accepted documents yield the same command name, the
\* description index at the end of the run maps that name to the description of
\* the latest of them, in discovery order, whose description is not empty; a
\* document with an empty description overwrites nothing, and a name all of
\* whose documents have an empty description is no key.  The keys are unique.
C8_LastNonEmptyDescription ==
    status = "ok" =>
        /\ UniqueKeys(descriptions)
        /\ out.descriptions = <<descriptions>>
        /\ DictKeys(descriptions) = {parse_cmdlet_doc(d).name : d \in {x \in Accepted : Described(parse_cmdlet_doc(x).name) # {}}}
        /\ \A n \in DictKeys(descriptions) :
             DictGet(descriptions, n, <<>>) = parse_cmdlet_doc(LastOf(Described(n))).description

\* Two accepted documents of one name, both described, differently: the index
\* holds the later description.
C8_Witness ==
    /\ status = "ok"
    /\ \E a, b \in Accepted :
          /\ Discovered(a, b)
          /\ parse_cmdlet_doc(a).name = parse_cmdlet_doc(b).name
          /\ parse_cmdlet_doc(a).description # <<>>
          /\ parse_cmdlet_doc(b).description # <<>>
          /\ parse_cmdlet_doc(a).description # parse_cmdlet_doc(b).description
          /\ DictGet(descriptions, parse_cmdlet_doc(b).name, <<>>) = parse_cmdlet_doc(b).description

Bundle(m) == DictGet(modules_data, m, <<>>)

\* C9: after a run, a module bundle is emitted for module m if and only if at
\* least one document in directory m was accepted; for every manifest entry with
\* name n and module m the bundle of m exists and its cmdlet mapping has the key
\* n; every key of a bundle's cmdlet mapping is the name of some manifest entry
\* with that module; no bundle with an empty cmdlet mapping is emitted, and each
\* bundle emitted is the content of the module's file.
C9_ManifestMatchesBundles ==
    status = "ok" =>
        /\ UniqueKeys(modules_data)
        /\ DictKeys(modules_data) = {ModuleDir(d) : d \in Accepted}
        /\ \A i \in 1..Len(manifest_entries) :
             /\ manifest_entries[i].m \in DictKeys(modules_data)
             /\ manifest_entries[i].n \in DictKeys(Bundle(manifest_entries[i].m).cmdlets)
        /\ \A m \in DictKeys(modules_data) :
             /\ Bundle(m).module = m
             /\ Bundle(m).cmdlets # <<>>
             /\ \A n \in DictKeys(Bundle(m).cmdlets) :
                  \E i \in EntriesOf(m) : manifest_entries[i].n = n
             /\ m \in DOMAIN out.modules /\ out.modules[m] = Bundle(m)

\* A run over a module directory none of whose documents was accepted and one
\* with an accepted document: one bundle.
C9_Witness ==
    /\ status = "ok"
    /\ \E d \in ScannedDocs : \A x \in ScannedDocs : ModuleDir(x) = ModuleDir(d) => x \notin Accepted
    /\ Len(modules_data) = 1
    /\ Len(manifest_entries) >= 1

=============================================================================
